---- MODULE Spec2Model ----
(***************************************************************************)
(* KartOperationManager (koordinates/core/kart_operation_manager.py): the  *)
(* list of ongoing kart tasks, the handlers connected to each task's       *)
(* taskCompleted / taskTerminated / progressChanged signals, and the       *)
(* signals the manager emits.                                              *)
(*                                                                         *)
(* The manager lives on the UI thread: its methods and the handlers run    *)
(* one at a time there (pc is the UI thread's position).  A task runs on a *)
(* worker thread of the host task manager; when it ends, the host sets its *)
(* status and queues the task's signal to the UI thread, whose event loop  *)
(* calls the connected handler once the thread is idle.                    *)
(*                                                                         *)
(* Every task is a KartCloneTask, the only task class the manager knows.   *)
(* Status "Running" stands for every status of a task that has not ended   *)
(* (Queued, OnHold, Running); is_cloning does not tell them apart.  The    *)
(* callbacks and RepoManager.add_repo are taken to return.                 *)
(***************************************************************************)
EXTENDS Integers, Sequences, FiniteSets

\* ---- bounds of the model
MaxTasks == 2        \* tasks created in one run of Spec
MaxPush == 1         \* tasks created in one run of SpecPush
NProgress == 1       \* progress takes the values k * 100 / NProgress

TaskIds == 1..MaxTasks
Urls == {"a", "b"}
Progresses == {(k * 100) \div NProgress : k \in 0..NProgress}
NoTask == MaxTasks + 1     \* the id of no task

\* callables handed to _push_task; None is an omitted argument
None == "None"
on_task_complete == "on_task_complete"
on_task_failed_or_cancel == "on_task_failed_or_cancel"
other_callback == "callable"
Callbacks == [on_complete : {None, other_callback},
              on_fail : {None, other_callback},
              on_cancel : {None, other_callback}]

VARIABLES
    _ongoing_tasks,   \* self._ongoing_tasks: sequence of task ids
    created,          \* number of task objects constructed so far
    status,           \* QgsTask.status() of each task
    url,              \* KartCloneTask.url
    was_canceled,     \* KartTask.was_canceled()
    result,           \* first component of KartTask.result()
    progress,         \* QgsTask.progress()
    callbacks,        \* the on_complete / on_fail / on_cancel the task was pushed with
    pc,               \* UI thread: idle, in start_clone before its emit, or in a
                      \* handler before its _pop_task
    progress_queued,  \* a progressChanged signal waits in the UI thread's queue
    popped,           \* per task: its handler has returned
    emitted,          \* the signals the last step emitted, in order
    clone_started,    \* per task: clone_started(url) emissions so far
    clone_finished,   \* per task: clone_finished(url) emissions so far
    called,           \* per task: the parameters whose callback was called, in order
    outcomes,         \* per task: task_completed / task_failed emissions so far
    repos             \* tasks whose repo was given to RepoManager.add_repo

vars == <<_ongoing_tasks, created, status, url, was_canceled, result, progress,
          callbacks, pc, progress_queued, popped, emitted, clone_started,
          clone_finished, called, outcomes, repos>>

Idle == [at |-> "idle", task |-> NoTask]
Finished == {"Complete", "Terminated"}
NoCallbacks == [on_complete |-> None, on_fail |-> None, on_cancel |-> None]

InList(tasks, t) == \E i \in 1..Len(tasks) : tasks[i] = t

\* a signal with its arguments; the arguments a signal does not have stay at their defaults
Signal(name, u, n, p) == [signal |-> name, url |-> u, remaining |-> n, progress |-> p]

\* ---- calculate_remaining_progress: a float, kept as the exact fraction <<num, den>>
RECURSIVE SumProgress(_, _)
SumProgress(tasks, prog) ==
    IF tasks = <<>> THEN 0
    ELSE prog[Head(tasks)] + SumProgress(Tail(tasks), prog)

calculate_remaining_progress_unweighted(tasks, prog) ==
    IF tasks = <<>> THEN <<-1, 1>>
    ELSE <<100 * SumProgress(tasks, prog), 100>>

calculate_remaining_progress(tasks, prog) ==
    IF tasks = <<>> THEN <<-1, 1>>
    ELSE <<100 * SumProgress(tasks, prog), 100 * Len(tasks)>>

\* ---- is_cloning: the loop over self._ongoing_tasks (every task is a KartCloneTask)
RECURSIVE is_cloning_from(_, _)
is_cloning_from(tasks, u) ==
    IF tasks = <<>> THEN FALSE
    ELSE IF url[Head(tasks)] = u /\ status[Head(tasks)] \notin Finished THEN TRUE
    ELSE is_cloning_from(Tail(tasks), u)

is_cloning_any_status(u) == \E i \in 1..Len(_ongoing_tasks) : url[_ongoing_tasks[i]] = u

is_cloning(u) == is_cloning_from(_ongoing_tasks, u)

\* ---- _emit_progress_message: the task_progress_changed it emits
ProgressMessage(tasks, prog) ==
    IF Len(tasks) = 1
    THEN Signal("task_progress_changed", "", 1, <<prog[tasks[1]], 1>>)
    ELSE Signal("task_progress_changed", "", Len(tasks),
                calculate_remaining_progress(tasks, prog))

TypeOK ==
    /\ created \in 0..MaxTasks
    /\ \A i \in 1..Len(_ongoing_tasks) : _ongoing_tasks[i] \in 1..created
    /\ status \in [TaskIds -> {"None", "Running", "Complete", "Terminated"}]
    /\ url \in [TaskIds -> Urls]
    /\ was_canceled \in [TaskIds -> BOOLEAN]
    /\ result \in [TaskIds -> BOOLEAN]
    /\ progress \in [TaskIds -> Progresses]
    /\ pc \in [at : {"idle", "clone_started", "pop"}, task : TaskIds \cup {NoTask}]
    /\ progress_queued \in BOOLEAN
    /\ popped \in [TaskIds -> BOOLEAN]
    /\ repos \subseteq TaskIds

Init ==
    /\ _ongoing_tasks = <<>>
    /\ created = 0
    /\ status = [t \in TaskIds |-> "None"]
    /\ url = [t \in TaskIds |-> "a"]
    /\ was_canceled = [t \in TaskIds |-> FALSE]
    /\ result = [t \in TaskIds |-> FALSE]
    /\ progress = [t \in TaskIds |-> 0]
    /\ callbacks = [t \in TaskIds |-> NoCallbacks]
    /\ pc = Idle
    /\ progress_queued = FALSE
    /\ popped = [t \in TaskIds |-> FALSE]
    /\ emitted = <<>>
    /\ clone_started = [t \in TaskIds |-> 0]
    /\ clone_finished = [t \in TaskIds |-> 0]
    /\ called = [t \in TaskIds |-> <<>>]
    /\ outcomes = [t \in TaskIds |-> 0]
    /\ repos = {}

\* ---- QgsApplication.taskManager().addTask(task), then the task on its worker thread

\* run() returned True: the host sets Complete and progress 100, then queues
\* progressChanged and taskCompleted to the UI thread
taskCompleted(t, r) ==
    /\ status[t] = "Running"
    /\ status' = [status EXCEPT ![t] = "Complete"]
    /\ result' = [result EXCEPT ![t] = r]
    /\ progress' = [progress EXCEPT ![t] = 100]
    /\ progress_queued' = TRUE
    /\ emitted' = <<>>
    /\ UNCHANGED <<_ongoing_tasks, created, url, was_canceled, callbacks, pc, popped,
                   clone_started, clone_finished, called, outcomes, repos>>

\* run() returned False, after a failure or a cancellation: the host sets Terminated
\* and queues taskTerminated to the UI thread
taskTerminated(t, r) ==
    /\ status[t] = "Running"
    /\ status' = [status EXCEPT ![t] = "Terminated"]
    /\ result' = [result EXCEPT ![t] = r]
    /\ emitted' = <<>>
    /\ UNCHANGED <<_ongoing_tasks, created, url, was_canceled, progress, callbacks, pc,
                   progress_queued, popped, clone_started, clone_finished, called,
                   outcomes, repos>>

\* the running task reports progress; progressChanged is queued to the UI thread
setProgress(t, p) ==
    /\ status[t] = "Running"
    /\ p # progress[t]
    /\ progress' = [progress EXCEPT ![t] = p]
    /\ progress_queued' = TRUE
    /\ emitted' = <<>>
    /\ UNCHANGED <<_ongoing_tasks, created, status, url, was_canceled, result, callbacks,
                   pc, popped, clone_started, clone_finished, called, outcomes, repos>>

\* ---- _push_task: append, connect the handlers (the closures keep the callables), addTask
_push_task(t, on_complete, on_fail, on_cancel) ==
    /\ _ongoing_tasks' = Append(_ongoing_tasks, t)
    /\ callbacks' = [callbacks EXCEPT ![t] = [on_complete |-> on_complete,
                                             on_fail |-> on_fail,
                                             on_cancel |-> on_cancel]]
    /\ status' = [status EXCEPT ![t] = "Running"]

\* which handler _push_task connected to taskCompleted / taskTerminated
CompletedHandler(t) ==
    IF callbacks[t].on_complete # None \/ callbacks[t].on_cancel # None
    THEN "call_on_complete_and_pop" ELSE "_pop_task"

TerminatedHandler(t) ==
    IF callbacks[t].on_fail # None THEN "call_on_fail_and_pop" ELSE "_pop_task"

\* ---- start_clone, up to the return of _push_task: the task is with the host, whose
\* worker thread may run it before start_clone goes on
start_clone(u) ==
    /\ pc = Idle
    /\ created < MaxTasks
    /\ LET t == created + 1 IN
        /\ created' = t
        /\ url' = [url EXCEPT ![t] = u]
        /\ _push_task(t, on_task_complete, on_task_failed_or_cancel, on_task_failed_or_cancel)
        /\ pc' = [at |-> "clone_started", task |-> t]
    /\ emitted' = <<>>
    /\ UNCHANGED <<was_canceled, result, progress, progress_queued, popped,
                   clone_started, clone_finished, called, outcomes, repos>>

\* ---- start_clone, its last statement: self.clone_started.emit(url)
emit_clone_started(t) ==
    /\ pc = [at |-> "clone_started", task |-> t]
    /\ clone_started' = [clone_started EXCEPT ![t] = @ + 1]
    /\ emitted' = <<Signal("clone_started", url[t], 0, <<0, 1>>)>>
    /\ pc' = Idle
    /\ UNCHANGED <<_ongoing_tasks, created, status, url, was_canceled, result, progress,
                   callbacks, progress_queued, popped, clone_finished, called,
                   outcomes, repos>>

\* a bare call of _push_task with a new clone task and any of the callbacks omitted
push_task(u, cb) ==
    /\ pc = Idle
    /\ created < MaxTasks
    /\ LET t == created + 1 IN
        /\ created' = t
        /\ url' = [url EXCEPT ![t] = u]
        /\ _push_task(t, cb.on_complete, cb.on_fail, cb.on_cancel)
    /\ emitted' = <<>>
    /\ UNCHANGED <<was_canceled, result, progress, pc, progress_queued, popped,
                   clone_started, clone_finished, called, outcomes, repos>>

\* ---- the callbacks of start_clone (and any other callable): the signals one emits
emits_unless_failed(cb, t) ==
    IF cb = on_task_complete
    THEN <<Signal("clone_finished", url[t], 0, <<0, 1>>)>>
    ELSE <<>>

emits(cb, t) ==
    IF cb \in {on_task_complete, on_task_failed_or_cancel}
    THEN <<Signal("clone_finished", url[t], 0, <<0, 1>>)>>
    ELSE <<>>

\* the callable given as parameter `slot` is called with the task, unless it is None
Call(slot, t) ==
    LET cb == callbacks[t][slot] IN
    IF cb = None
    THEN /\ emitted' = <<>>
         /\ UNCHANGED <<called, repos, clone_finished>>
    ELSE /\ called' = [called EXCEPT ![t] = Append(@, slot)]
         /\ repos' = IF cb = on_task_complete THEN repos \cup {t} ELSE repos
         /\ emitted' = emits(cb, t)
         /\ clone_finished' = [clone_finished EXCEPT ![t] = @ + Len(emits(cb, t))]

\* ---- call_on_complete_and_pop, up to its call of _pop_task
CompletedSlot_ignoring_cancel(t) == "on_complete"

CompletedSlot(t) == IF ~was_canceled[t] THEN "on_complete" ELSE "on_cancel"

call_on_complete_and_pop(t) ==
    /\ pc = Idle
    /\ t \in 1..created
    /\ status[t] = "Complete"
    /\ ~popped[t]
    /\ CompletedHandler(t) = "call_on_complete_and_pop"
    /\ Call(CompletedSlot(t), t)
    /\ pc' = [at |-> "pop", task |-> t]
    /\ UNCHANGED <<_ongoing_tasks, created, status, url, was_canceled, result, progress,
                   callbacks, progress_queued, popped, clone_started, outcomes>>

\* ---- call_on_fail_and_pop, up to its call of _pop_task
call_on_fail_and_pop(t) ==
    /\ pc = Idle
    /\ t \in 1..created
    /\ status[t] = "Terminated"
    /\ ~popped[t]
    /\ TerminatedHandler(t) = "call_on_fail_and_pop"
    /\ Call("on_fail", t)
    /\ pc' = [at |-> "pop", task |-> t]
    /\ UNCHANGED <<_ongoing_tasks, created, status, url, was_canceled, result, progress,
                   callbacks, progress_queued, popped, clone_started, outcomes>>

\* ---- _pop_task
keep_all(tasks, t) == tasks

without(tasks, t) == SelectSeq(tasks, LAMBDA x : x # t)

pop_signals_before_removal(t, remaining) ==
    IF was_canceled[t]
    THEN IF Len(remaining) = 0
         THEN <<Signal("single_task_canceled", "", 0, <<0, 1>>)>>
         ELSE <<ProgressMessage(remaining, progress)>>
    ELSE <<Signal(IF result[t] THEN "task_completed" ELSE "task_failed", "",
                  Len(_ongoing_tasks),
                  calculate_remaining_progress(_ongoing_tasks, progress))>>

pop_signals(t, remaining) ==
    IF was_canceled[t]
    THEN IF Len(remaining) = 0
         THEN <<Signal("single_task_canceled", "", 0, <<0, 1>>)>>
         ELSE <<ProgressMessage(remaining, progress)>>
    ELSE <<Signal(IF result[t] THEN "task_completed" ELSE "task_failed", "",
                  Len(remaining),
                  calculate_remaining_progress(remaining, progress))>>

IsOutcome(sig) == sig.signal \in {"task_completed", "task_failed"}

\* Once _pop_task has returned the manager holds the task no longer, and the host
\* deletes it: the task's own fields leave the state.
_pop_task(t) ==
    /\ LET remaining == without(_ongoing_tasks, t) IN
        /\ _ongoing_tasks' = remaining
        /\ emitted' = pop_signals(t, remaining)
    /\ outcomes' = [outcomes EXCEPT ![t] = @ + Len(SelectSeq(emitted', IsOutcome))]
    /\ popped' = [popped EXCEPT ![t] = TRUE]
    /\ pc' = Idle
    /\ status' = [status EXCEPT ![t] = "None"]
    /\ url' = [url EXCEPT ![t] = "a"]
    /\ was_canceled' = [was_canceled EXCEPT ![t] = FALSE]
    /\ result' = [result EXCEPT ![t] = FALSE]
    /\ progress' = [progress EXCEPT ![t] = 0]
    /\ UNCHANGED <<created, callbacks, progress_queued, clone_started, clone_finished,
                   called, repos>>

\* the last statement of call_on_complete_and_pop and of call_on_fail_and_pop
pop_after_callback(t) ==
    /\ pc = [at |-> "pop", task |-> t]
    /\ _pop_task(t)

\* _pop_task connected to the task's signal itself, the callbacks for it being omitted
pop_directly(t) ==
    /\ pc = Idle
    /\ t \in 1..created
    /\ ~popped[t]
    /\ \/ status[t] = "Complete" /\ CompletedHandler(t) = "_pop_task"
       \/ status[t] = "Terminated" /\ TerminatedHandler(t) = "_pop_task"
    /\ _pop_task(t)

\* ---- _emit_progress_message, the slot of every task's progressChanged
_emit_progress_message ==
    /\ pc = Idle
    /\ progress_queued
    /\ progress_queued' = FALSE
    /\ emitted' = <<ProgressMessage(_ongoing_tasks, progress)>>
    /\ UNCHANGED <<_ongoing_tasks, created, status, url, was_canceled, result, progress,
                   callbacks, pc, popped, clone_started, clone_finished, called,
                   outcomes, repos>>

\* ---- cancel: t.cancel() for every ongoing task
cancel ==
    /\ pc = Idle
    /\ \E i \in 1..Len(_ongoing_tasks) : ~was_canceled[_ongoing_tasks[i]]
    /\ was_canceled' = [t \in TaskIds |-> was_canceled[t] \/ InList(_ongoing_tasks, t)]
    /\ emitted' = <<>>
    /\ UNCHANGED <<_ongoing_tasks, created, status, url, result, progress, callbacks, pc,
                   progress_queued, popped, clone_started, clone_finished, called,
                   outcomes, repos>>

\* the host's task list cancels one running task: KartTask.cancel()
cancel_task(t) ==
    /\ pc = Idle
    /\ status[t] = "Running"
    /\ ~was_canceled[t]
    /\ was_canceled' = [was_canceled EXCEPT ![t] = TRUE]
    /\ emitted' = <<>>
    /\ UNCHANGED <<_ongoing_tasks, created, status, url, result, progress, callbacks, pc,
                   progress_queued, popped, clone_started, clone_finished, called,
                   outcomes, repos>>

\* every task is pushed by start_clone
Next ==
    \/ \E u \in Urls : start_clone(u)
    \/ \E t \in TaskIds : emit_clone_started(t)
    \/ \E t \in TaskIds, r \in BOOLEAN : taskCompleted(t, r)
    \/ \E t \in TaskIds, r \in BOOLEAN : taskTerminated(t, r)
    \/ \E t \in TaskIds, p \in Progresses : setProgress(t, p)
    \/ \E t \in TaskIds : call_on_complete_and_pop(t)
    \/ \E t \in TaskIds : call_on_fail_and_pop(t)
    \/ \E t \in TaskIds : pop_after_callback(t)
    \/ _emit_progress_message
    \/ cancel
    \/ \E t \in TaskIds : cancel_task(t)

Spec == Init /\ [][Next]_vars

\* tasks are pushed by start_clone or by a bare _push_task
NextPush ==
    \/ created < MaxPush /\ \E u \in Urls : start_clone(u)
    \/ created < MaxPush /\ \E u \in Urls, cb \in Callbacks : push_task(u, cb)
    \/ \E t \in TaskIds : emit_clone_started(t)
    \/ \E t \in TaskIds, r \in BOOLEAN : taskCompleted(t, r)
    \/ \E t \in TaskIds, r \in BOOLEAN : taskTerminated(t, r)
    \/ \E t \in TaskIds, p \in Progresses : setProgress(t, p)
    \/ \E t \in TaskIds : call_on_complete_and_pop(t)
    \/ \E t \in TaskIds : call_on_fail_and_pop(t)
    \/ \E t \in TaskIds : pop_after_callback(t)
    \/ \E t \in TaskIds : pop_directly(t)
    \/ _emit_progress_message
    \/ cancel
    \/ \E t \in TaskIds : cancel_task(t)

SpecPush == Init /\ [][NextPush]_vars

\* the UI thread goes on: start_clone and a handler run to their end, and the event
\* loop delivers a queued taskCompleted / taskTerminated
Handler(t) ==
    \/ emit_clone_started(t)
    \/ call_on_complete_and_pop(t)
    \/ call_on_fail_and_pop(t)
    \/ pop_after_callback(t)

\* the task's run() returns
TaskEnds(t) == \E r \in BOOLEAN : taskCompleted(t, r) \/ taskTerminated(t, r)

\* Spec where the UI thread keeps going and, while a task runs, some task ends at
\* some time (which "every pushed task ends" implies)
FairSpec ==
    /\ Spec
    /\ WF_vars(\E t \in TaskIds : Handler(t))
    /\ WF_vars(\E t \in TaskIds : TaskEnds(t))

\* ======================================================================
\* Properties

Pushed == 1..created
Ongoing == {_ongoing_tasks[i] : i \in 1..Len(_ongoing_tasks)}
CountIn(signals, name) == Len(SelectSeq(signals, LAMBDA sig : sig.signal = name))
Count(name) == CountIn(emitted, name)

\* C1: every start_clone(url) emits clone_started(url) once; clone_finished(url) is
\* never emitted before it nor more than once, and once the task's handler has
\* returned (the task completed, failed or was cancelled) it has been emitted
\* exactly once.
C1_CloneSignals ==
    \A t \in TaskIds :
        /\ clone_started[t] = (IF t \in Pushed /\ pc # [at |-> "clone_started", task |-> t]
                               THEN 1 ELSE 0)
        /\ clone_finished[t] <= clone_started[t]
        /\ popped[t] => clone_finished[t] = 1
        /\ ~popped[t] /\ ~(pc.at = "pop" /\ pc.task = t) => clone_finished[t] = 0

\* a cancelled clone whose handler has returned, clone_finished emitted by on_cancel
C1_Witness ==
    \E t \in TaskIds :
        popped[t] /\ clone_started[t] = 1 /\ clone_finished[t] = 1
                  /\ called[t] = <<"on_cancel">>

\* the callback the claim calls the matching one, from the task's state at its end
MatchingSlot(t) ==
    IF status[t] = "Terminated" THEN "on_fail"
    ELSE IF was_canceled[t] THEN "on_cancel" ELSE "on_complete"

\* C2 as stated: for a task pushed with some callback, the handler runs exactly one
\* of the supplied callbacks, with the task still in _ongoing_tasks, and only then
\* removes the task.
C2_ExactlyOneCallback ==
    \A t \in TaskIds :
        /\ pc.at = "pop" /\ pc.task = t => t \in Ongoing /\ Len(called[t]) = 1
        /\ popped[t] /\ callbacks[t] # NoCallbacks => t \notin Ongoing /\ Len(called[t]) = 1

\* C2 amended: when the task ends, the matching callback (on_complete if taskCompleted
\* and not cancelled, on_cancel if taskCompleted and cancelled, on_fail if
\* taskTerminated) is called if it was supplied, once, while the task is still in
\* _ongoing_tasks, and no other callback is called; if it was omitted no callback is
\* called; _pop_task removes the task only afterwards.
C2_MatchingCallbackThenPop ==
    [][\A t \in TaskIds :
        /\ called'[t] # called[t] =>
              /\ called[t] = <<>>
              /\ called'[t] = <<MatchingSlot(t)>>
              /\ callbacks[t][MatchingSlot(t)] # None
              /\ t \in Ongoing /\ t \in Ongoing'
              /\ ~popped'[t]
        /\ popped'[t] /\ ~popped[t] =>
              /\ called'[t] = (IF callbacks[t][MatchingSlot(t)] # None
                               THEN <<MatchingSlot(t)>> ELSE <<>>)
              /\ called[t] = called'[t]
              /\ t \in Ongoing /\ t \notin Ongoing'
    ]_vars

\* on_cancel was supplied and has run for a cancelled task that completed; the task is
\* still in _ongoing_tasks
C2_Witness ==
    \E t \in TaskIds :
        /\ pc = [at |-> "pop", task |-> t]
        /\ callbacks[t].on_complete = None
        /\ callbacks[t].on_cancel # None
        /\ called[t] = <<"on_cancel">>
        /\ t \in Ongoing

\* the progress the claim expects: -1 for no task, else the mean of progress()
RECURSIVE Total(_, _)
Total(S, prog) ==
    IF S = {} THEN 0
    ELSE LET t == CHOOSE x \in S : TRUE IN prog[t] + Total(S \ {t}, prog)

IsMean(p, S, prog) ==
    IF S = {} THEN p = <<-1, 1>>
    ELSE p[2] > 0 /\ p[1] * Cardinality(S) = Total(S, prog) * p[2]

\* C3: a task that ends not cancelled makes _pop_task emit exactly one outcome
\* signal, task_completed if its result is true and task_failed if not; the signal's
\* remaining tasks are the number of tasks in _ongoing_tasks after the removal, and
\* its progress is the mean progress of those tasks (-1 when there are none).
C3_OutcomeSignal ==
    [][\A t \in TaskIds :
        popped'[t] /\ ~popped[t] /\ ~was_canceled[t] =>
            /\ CountIn(emitted', "task_completed") + CountIn(emitted', "task_failed") = 1
            /\ CountIn(emitted', IF result[t] THEN "task_completed" ELSE "task_failed") = 1
            /\ outcomes'[t] = 1
            /\ t \notin Ongoing'
            /\ \A i \in 1..Len(emitted') :
                  IsOutcome(emitted'[i]) =>
                      /\ emitted'[i].remaining = Cardinality(Ongoing')
                      /\ IsMean(emitted'[i].progress, Ongoing', progress')
    ]_vars

\* task_failed was just emitted with one task remaining, whose progress is not 0
C3_Witness ==
    /\ Count("task_failed") = 1
    /\ emitted[1].remaining = 1
    /\ emitted[1].progress[1] > 0
    /\ Len(_ongoing_tasks) = 1

\* C4: calculate_remaining_progress() is -1 when _ongoing_tasks is empty, else the
\* mean of progress() over the ongoing tasks, each weighted equally; it lies within
\* 0..100 when every task's progress does.
C4_RemainingProgress ==
    LET p == calculate_remaining_progress(_ongoing_tasks, progress) IN
        /\ IsMean(p, Ongoing, progress)
        /\ _ongoing_tasks # <<>> /\ (\A t \in Ongoing : progress[t] \in 0..100)
              => 0 <= p[1] /\ p[1] <= 100 * p[2]

\* two ongoing tasks of different progress: the mean is strictly between them
C4_Witness ==
    /\ Len(_ongoing_tasks) = 2
    /\ progress[_ongoing_tasks[1]] = 100
    /\ progress[_ongoing_tasks[2]] = 0
    /\ calculate_remaining_progress(_ongoing_tasks, progress) = <<10000, 200>>

\* a clone of u that has been started and whose task has not ended
BeingCloned(u) == \E t \in Pushed : ~popped[t] /\ url[t] = u /\ status[t] = "Running"

\* C5: is_cloning(url) is true exactly when a task with that url is in _ongoing_tasks
\* and has not ended, hence from clone_started(url) until the task ends; when
\* clone_finished(url) is emitted the ended task is still in _ongoing_tasks, and
\* is_cloning(url) is false unless another clone of the url is ongoing.
C5_IsCloning ==
    /\ \A u \in Urls :
          is_cloning(u) <=> \E t \in Ongoing : url[t] = u /\ status[t] \notin Finished
    /\ \A u \in Urls : is_cloning(u) <=> BeingCloned(u)
    /\ \A t \in Pushed : clone_started[t] = 1 /\ status[t] = "Running" => is_cloning(url[t])
    /\ \A i \in 1..Len(emitted) :
          emitted[i].signal = "clone_finished" =>
              /\ pc.at = "pop" /\ pc.task \in Ongoing
              /\ url[pc.task] = emitted[i].url
              /\ is_cloning(emitted[i].url) <=>
                    \E o \in Ongoing \ {pc.task} :
                        url[o] = emitted[i].url /\ status[o] = "Running"

\* clone_finished("a") was just emitted: its task is still in _ongoing_tasks beside a
\* running clone of "b", and is_cloning("a") is false
C5_Witness ==
    /\ Count("clone_finished") = 1
    /\ emitted[1].url = "a"
    /\ Len(_ongoing_tasks) = 2
    /\ pc.task \in Ongoing
    /\ ~is_cloning("a")
    /\ is_cloning("b")

\* C6: _ongoing_tasks holds exactly the pushed tasks whose handler has not returned,
\* each once; a task whose handler has returned is not in it; and if every pushed
\* task ends (as in FairSpec), _ongoing_tasks becomes empty again.
C6_OngoingTasks ==
    /\ [](/\ Ongoing = {t \in Pushed : ~popped[t]}
          /\ Cardinality(Ongoing) = Len(_ongoing_tasks)
          /\ \A t \in TaskIds : popped[t] => t \notin Ongoing)
    /\ [](_ongoing_tasks # <<>> => <>(_ongoing_tasks = <<>>))

\* one task's handler has returned while a task pushed after it is still ongoing
C6_Witness ==
    /\ created = 2
    /\ popped[1]
    /\ _ongoing_tasks = <<2>>
    /\ status[2] = "Complete"

====
